---- MODULE Spec2Model ----
(***************************************************************************)
(* Model of the two posting scripts of the repository:                     *)
(*   "cred"   : src/post_and_archive.js (credential login)                 *)
(*   "cookie" : the cookie-session script embedded at lines 155-391 of     *)
(*              src/puppeteer/puppeteer-install.sh                         *)
(* Both share the media directory and its cursor file                      *)
(* (.twitter_post_index).  A behaviour is a sequence of runs (cron style), *)
(* each run being one execution of one of the two scripts.                 *)
(*                                                                         *)
(* File names and file contents are sequences of one-character strings.    *)
(***************************************************************************)
EXTENDS Integers, Sequences, FiniteSets

VARIABLES
    dir,          \* media files present in IMAGE_DIR (set of names), fixed per behaviour
    cf,           \* the cursor file: [kind: missing | unreadable | text, text]
    writeFails,   \* number of cursor writes that have failed so far
    runs,         \* number of runs that reached the selection step so far
    hist,         \* per run that reached the selection: index selected, -1 if none
    script,       \* script of the current run
    pc,           \* position of the current run
    cfStart,      \* cursor file when the current run started
    files,        \* this run's sorted, filtered listing
    idx,          \* this run's idx
    fileToPost,   \* this run's selected name, <<>> before selection
    wr,           \* cursor write of this run: [tried, ok, val]
    cfAfterWrite, \* cursor file right after this run's write step
    cookies,      \* number of cookie records loaded (cookie script)
    cookieLog,    \* [primary, alias]: setCookie calls made on each domain; rejected: how
                  \*   many of them rejected; skipped: records whose alias copy threw; nulls: null
                  \*   records of the cookie array the alias loop has still to meet
    browser,      \* none | open | closed
    page,         \* TRUE once browser.newPage() has returned
    loggedIn,     \* result of the authenticated-state probe: unknown | yes | no
    login,        \* interactive login: calls made [idWaits, idTyped, pwWaits, pwTyped], waits
                  \*   for the secret field that timed out [pwTimeouts], diagnostics taken [diag]
    attachSeen,   \* TRUE once an attachment-accepted marker has been waited for and seen
    attempt,      \* loop variable of the publish-button retry loop
    pub,          \* publish search history: [scans, foundAt, clicks, posted, exhausted, dump,
                  \*   modals: what the dialog scan after the click saw,
                  \*   sleeps: sleep(2000) calls made by the retry loop]
    err,          \* first error or fatal condition of this run ("none" if none)
    thrown,       \* error currently propagating / reaching the caller ("none" if none)
    diag,         \* failure-time diagnostics: [tried, failed]
    mail,         \* error-email hand-off of this run: none | sent | rejected | crashed
    exit,         \* how the process ended: none | ok | exit1 | rejected | uncaught
    prevWrite,    \* cursor write of the previous run: none | ok | failed
    race,         \* two overlapping processes in the selection code (SpecRace only)
    trial         \* one application of the button scan to a list (SpecScan only)

vars == <<dir, cf, writeFails, runs, hist, script, pc, cfStart, files, idx, fileToPost,
          wr, cfAfterWrite, cookies, cookieLog, browser, page, loggedIn, login,
          attachSeen, attempt, pub, err, thrown, diag, mail, exit, prevWrite,
          race, trial>>

selVars == <<files, idx, fileToPost, wr, cfAfterWrite>>
brVars  == <<cookies, cookieLog, browser, page, loggedIn, login, attachSeen, attempt, pub>>
errVars == <<err, thrown, diag, mail>>
envVars == <<dir, writeFails, runs, script, cfStart, prevWrite, race, trial>>

----------------------------------------------------------------------------
(* Bounds of the model *)

\* MaxRuns bounds the runs that reach the selection step: a run that ends before it
\* (no cookie file, empty queue) leaves the directory and the cursor file as they were.
MaxRuns == 3
MaxWriteFailures == 1
MaxCookies == 2
MaxButtons == 2
MaxScanLen == 3

----------------------------------------------------------------------------
(* Characters, strings *)

\* The characters used, in increasing UTF-16 code unit order.
CharOrder == <<" ", "-", ".", "0", "1", "2", "3", "4", "5", "6", "7", "8", "9",
               "B", "M", "P", "_", "a", "c", "d", "e", "f", "g", "i", "n", "o", "p",
               "r", "s", "t", "w", "x">>

Code(c) == CHOOSE i \in 1..Len(CharOrder) : CharOrder[i] = c

Lower(c) == CASE c = "B" -> "b"
              [] c = "M" -> "m"
              [] c = "P" -> "p"
              [] c = "R" -> "r"
              [] c = "T" -> "t"
              [] OTHER -> c

\* String < of JavaScript: lexicographic on code units (the default of Array.sort).
StrLess(a, b) ==
    \E i \in 1..(Len(a) + 1) :
        /\ \A j \in 1..(i - 1) : j <= Len(b) /\ a[j] = b[j]
        /\ \/ i = Len(a) + 1 /\ Len(b) >= i
           \/ i <= Len(a) /\ i <= Len(b) /\ Code(a[i]) < Code(b[i])

RECURSIVE SortNames(_)
SortNames(S) ==
    IF S = {} THEN <<>>
    ELSE LET m == CHOOSE x \in S : \A y \in S : ~StrLess(y, x)
         IN  <<m>> \o SortNames(S \ {m})

MediaExts == { <<"j","p","g">>, <<"j","p","e","g">>, <<"p","n","g">>, <<"m","p","4">>,
               <<"m","o","v">>, <<"a","v","i">>, <<"w","e","b","m">>, <<"m","k","v">>,
               <<"g","i","f">> }

EndsWithCI(name, suf) ==
    /\ Len(name) >= Len(suf)
    /\ \A i \in 1..Len(suf) : Lower(name[Len(name) - Len(suf) + i]) = suf[i]

\* /\.(jpe?g|png|mp4|mov|avi|webm|mkv|gif)$/i.test(f)
MatchesMedia(name) == \E e \in MediaExts : EndsWithCI(name, <<".">> \o e)

COUNTER_NAME == <<".","t","w","i","t","t","e","r","_","p","o","s","t","_","i","n","d","e","x">>

\* The media directories of the model: one snapshot per queue length 0..3.  Upper
\* case sorts before lower case, and the extension test ignores case.
FileA == <<"a",".","p","n","g">>
FileB == <<"B",".","M","P","4">>
FileC == <<"c",".","g","i","f">>
DirSnapshots == { {}, {FileA}, {FileA, FileB}, {FileA, FileB, FileC} }

\* fs.readdirSync(IMAGE_DIR): the media files plus the cursor file when it exists.
ReadDir(d, c) == d \cup (IF c.kind = "missing" THEN {} ELSE {COUNTER_NAME})

ListFiles(d, c) == SortNames({f \in ReadDir(d, c) : MatchesMedia(f)})

----------------------------------------------------------------------------
(* parseInt(s, 10) and Number.prototype.toString() *)

IsDigit(c) == c \in {"0","1","2","3","4","5","6","7","8","9"}
DigitVal(c) == Code(c) - Code("0")
DigitChar(d) == CharOrder[Code("0") + d]
IsWhite(c) == c = " "

RECURSIVE SkipWhite(_)
SkipWhite(s) == IF s # <<>> /\ IsWhite(Head(s)) THEN SkipWhite(Tail(s)) ELSE s

RECURSIVE DigitRun(_)
DigitRun(s) == IF s # <<>> /\ IsDigit(Head(s)) THEN <<Head(s)>> \o DigitRun(Tail(s)) ELSE <<>>

RECURSIVE DigitsValue(_)
DigitsValue(ds) ==
    IF ds = <<>> THEN 0
    ELSE 10 * DigitsValue(SubSeq(ds, 1, Len(ds) - 1)) + DigitVal(ds[Len(ds)])

\* parseInt(text, 10): leading white space skipped, optional sign, longest digit
\* prefix; NaN when that prefix is empty.  -0 indexes like 0 and is modelled as 0.
ParseInt(text) ==
    LET s    == SkipWhite(text)
        neg  == s # <<>> /\ s[1] = "-"
        body == IF s # <<>> /\ s[1] \in {"-", "+"} THEN Tail(s) ELSE s
        ds   == DigitRun(body)
    IN  IF ds = <<>> THEN [isNaN |-> TRUE, val |-> 0]
        ELSE [isNaN |-> FALSE, val |-> IF neg THEN 0 - DigitsValue(ds) ELSE DigitsValue(ds)]

RECURSIVE NatToString(_)
NatToString(k) ==
    IF k < 10 THEN <<DigitChar(k)>> ELSE NatToString(k \div 10) \o <<DigitChar(k % 10)>>

NumToString(k) == IF k < 0 THEN <<"-">> \o NatToString(0 - k) ELSE NatToString(k)

----------------------------------------------------------------------------
(* The cursor file *)

Missing    == [kind |-> "missing", text |-> <<>>]
Unreadable == [kind |-> "unreadable", text |-> <<>>]
Text(t)    == [kind |-> "text", text |-> t]

\* The file after content t has been stored in it: a file the script may write but
\* not read (mode 0200) keeps its mode, so it holds t and stays unreadable.
Stored(c, t) == IF c.kind = "unreadable" THEN [kind |-> "unreadable", text |-> t]
                                         ELSE Text(t)

\* The contents the cursor file may start with: empty, in-range and out-of-range
\* numbers, a two-digit number, a negative number, minus zero, a letter, a digit
\* followed by a letter, white space before a digit.
CursorTexts == { <<>>, <<"0">>, <<"1">>, <<"2">>, <<"7">>, <<"1","7">>,
                 <<"-","1">>, <<"-","0">>, <<"x">>, <<"1","x">>, <<" ","1">> }

CursorStates == {Missing, Unreadable} \cup {Text(t) : t \in CursorTexts}

\* if (isNaN(idx) || idx >= files.length) idx = 0;
CounterFallback(p, n) == IF p.isNaN \/ p.val >= n THEN 0 ELSE p.val

\* let idx = 0; try { if (existsSync) { idx = parseInt(readFileSync); ... } } catch { idx = 0 }
LoadIdx(c, n) ==
    CASE c.kind = "missing"    -> 0
      [] c.kind = "unreadable" -> 0
      [] OTHER                 -> CounterFallback(ParseInt(c.text), n)

\* Mutant of NextIdx: the wrap test is off by one.
NextIdx_WrapLate(i, n) == IF i + 1 > n THEN 0 ELSE i + 1

\* Mutant of NextIdx: the wrap to 0 is forgotten.
NextIdx_NoWrap(i, n) == i + 1

\* let nextIdx = idx + 1; if (nextIdx >= files.length) nextIdx = 0;
NextIdx(i, n) == IF i + 1 >= n THEN 0 ELSE i + 1

\* Mutant of IsEmptyQueue: the array itself is tested, and an array is always truthy.
IsEmptyQueue_ArrayTruthy(fs) == FALSE

\* if (!files.length)
IsEmptyQueue(fs) == Len(fs) = 0

\* files[idx] is undefined unless 0 <= idx < files.length
HasFileAt(fs, i) == i >= 0 /\ i < Len(fs)

----------------------------------------------------------------------------
(* Initial state and the start of a run *)

NoWrite == [tried |-> FALSE, ok |-> FALSE, val |-> 0]
NoLogin == [idWaits |-> 0, idTyped |-> 0, pwWaits |-> 0, pwTimeouts |-> 0, pwTyped |-> 0,
            diag |-> FALSE]
NoPub   == [scans |-> 0, foundAt |-> 0, clicks |-> 0, posted |-> FALSE,
            exhausted |-> FALSE, dump |-> "none", modals |-> "unseen", sleeps |-> 0]
NoDiag  == [tried |-> FALSE, failed |-> FALSE]
NoCookieLog == [primary |-> 0, alias |-> 0, rejected |-> 0, skipped |-> 0, nulls |-> 0]
NoRace  == <<>>
NoTrial == [btnEls |-> <<>>, chosen |-> 0, done |-> FALSE]

Scripts == {"cred", "cookie"}

Init ==
    /\ dir \in DirSnapshots
    /\ cf \in CursorStates
    /\ writeFails = 0
    /\ runs = 0
    /\ hist = <<>>
    /\ script = "cred"
    /\ pc = "idle"
    /\ cfStart = cf
    /\ files = <<>>
    /\ idx = 0
    /\ fileToPost = <<>>
    /\ wr = NoWrite
    /\ cfAfterWrite = cf
    /\ cookies = 0
    /\ cookieLog = NoCookieLog
    /\ browser = "none"
    /\ page = FALSE
    /\ loggedIn = "unknown"
    /\ login = NoLogin
    /\ attachSeen = FALSE
    /\ attempt = 0
    /\ pub = NoPub
    /\ err = "none"
    /\ thrown = "none"
    /\ diag = NoDiag
    /\ mail = "none"
    /\ exit = "none"
    /\ prevWrite = "none"
    /\ race = NoRace
    /\ trial = NoTrial

\* The process ends: nothing of the run executes any more.
EndProcess(how) == pc' = "done" /\ exit' = how

\* How the cursor write of a run went.
WriteOutcome(w) == IF ~w.tried THEN "none" ELSE IF w.ok THEN "ok" ELSE "failed"

\* A new process is started on the same media directory (cron, or the operator).
StartRun ==
    /\ pc \in {"idle", "done"}
    /\ runs < MaxRuns
    /\ \E s \in Scripts :
        /\ script' = s
        /\ pc' = IF s = "cookie" THEN "loadCookies" ELSE "list"
    /\ cfStart' = cf
    /\ files' = <<>>
    /\ idx' = 0
    /\ fileToPost' = <<>>
    /\ wr' = NoWrite
    /\ cfAfterWrite' = cf
    /\ cookies' = 0
    /\ cookieLog' = NoCookieLog
    /\ browser' = "none"
    /\ page' = FALSE
    /\ loggedIn' = "unknown"
    /\ login' = NoLogin
    /\ attachSeen' = FALSE
    /\ attempt' = 0
    /\ pub' = NoPub
    /\ err' = "none"
    /\ thrown' = "none"
    /\ diag' = NoDiag
    /\ mail' = "none"
    /\ exit' = "none"
    /\ prevWrite' = WriteOutcome(wr)
    /\ UNCHANGED <<dir, cf, writeFails, runs, hist, race, trial>>

----------------------------------------------------------------------------
(* File selection and counter update: the same code in both scripts *)

\* cookie script only: the cookie file is read before anything else.
LoadCookies ==
    /\ pc = "loadCookies"
    /\ \/ /\ \E k \in 0..MaxCookies : cookies' = k
          /\ pc' = "list"
          /\ UNCHANGED <<err, exit>>
       \/ /\ err' = "CookieLoad"           \* file missing, or JSON.parse throws
          /\ EndProcess("exit1")
          /\ UNCHANGED cookies
    /\ UNCHANGED <<envVars, cf, hist, selVars, cookieLog, browser, page, loggedIn, login,
                   attachSeen, attempt, pub, thrown, diag, mail>>

\* readdirSync + filter + sort, then the empty check.
ListAndCheck ==
    /\ pc = "list"
    /\ LET fs == ListFiles(dir, cf) IN
        /\ files' = fs
        /\ IF IsEmptyQueue(fs)
           THEN /\ err' = "EmptyQueue"
                /\ EndProcess("exit1")
           ELSE /\ pc' = "counter"
                /\ UNCHANGED <<err, exit>>
    /\ UNCHANGED <<envVars, cf, hist, idx, fileToPost, wr, cfAfterWrite, brVars,
                   thrown, diag, mail>>

\* Load counter.
LoadCounter ==
    /\ pc = "counter"
    /\ idx' = LoadIdx(cf, Len(files))
    /\ pc' = "select"
    /\ UNCHANGED <<envVars, cf, hist, files, fileToPost, wr, cfAfterWrite, brVars,
                   errVars, exit>>

\* const fileToPost = files[idx]; const filePath = path.join(IMAGE_DIR, fileToPost);
\* path.join throws a TypeError on undefined; it is outside every try block, so the
\* async function rejects and the process ends with a failure status.
SelectFile ==
    /\ pc = "select"
    /\ runs' = runs + 1
    /\ IF HasFileAt(files, idx)
       THEN /\ fileToPost' = files[idx + 1]
            /\ hist' = Append(hist, idx)
            /\ pc' = "write"
            /\ UNCHANGED <<err, thrown, exit>>
       ELSE /\ hist' = Append(hist, -1)
            /\ err' = "TypeError"
            /\ thrown' = "TypeError"
            /\ EndProcess("rejected")
            /\ UNCHANGED fileToPost
    /\ UNCHANGED <<dir, writeFails, script, cfStart, prevWrite, race, trial, cf, files, idx,
                   wr, cfAfterWrite, brVars, diag, mail>>

\* What a writeFileSync that throws leaves of the file: the file as it was when the
\* open fails (EACCES, EROFS); an empty file when the open, which truncates, succeeds
\* and the write fails (ENOSPC, EDQUOT, EIO).
FailedWriteLeaves(c) == {c, Stored(c, <<>>)}

\* Mutant of AfterCounterWrite: a failed cursor write ends the run.
AfterCounterWrite_FailFast(ok) == IF ok THEN "launch" ELSE "done"

\* catch (e) { console.warn(...) }: the run goes on to the browser either way.
AfterCounterWrite(ok) == "launch"

\* Increment and save counter for next run; a failed write is only warned about.
WriteCounter ==
    /\ pc = "write"
    /\ LET nextIdx == NextIdx(idx, Len(files)) IN
        \/ /\ wr' = [tried |-> TRUE, ok |-> TRUE, val |-> nextIdx]
           /\ cf' = Stored(cf, NumToString(nextIdx))
           /\ UNCHANGED writeFails
        \/ /\ writeFails < MaxWriteFailures       \* writeFileSync throws
           /\ wr' = [tried |-> TRUE, ok |-> FALSE, val |-> nextIdx]
           /\ writeFails' = writeFails + 1
           /\ cf' \in FailedWriteLeaves(cf)
    /\ cfAfterWrite' = cf'
    /\ pc' = AfterCounterWrite(wr'.ok)
    /\ UNCHANGED <<dir, runs, script, cfStart, prevWrite, race, trial, hist, files, idx,
                   fileToPost, brVars, errVars, exit>>

SelectionNext == StartRun \/ LoadCookies \/ ListAndCheck \/ LoadCounter \/ SelectFile \/ WriteCounter

----------------------------------------------------------------------------
(* Publish-button scan *)

PublishAttempts == 8          \* post_and_archive.js: attempt < 8
CookiePublishAttempts == 10   \* cookie-session script: attempt < 10

\* The innerText values of the scanned elements.
LabelPost  == <<"P","o","s","t">>
LabelTweet == <<" ","t","w","e","e","t"," ">>
LabelReply == <<"R","e","p","l","y">>
LabelPosts == <<"P","o","s","t","s">>

\* A scanned element: its innerText and its disabled / aria-disabled state.
ButtonKinds == [label : {LabelPost, LabelTweet, LabelReply, LabelPosts}, disabled : BOOLEAN]

\* String.prototype.trim()
RECURSIVE TrimEnd(_)
TrimEnd(s) == IF s # <<>> /\ IsWhite(s[Len(s)]) THEN TrimEnd(SubSeq(s, 1, Len(s) - 1)) ELSE s

Trim(s) == TrimEnd(SkipWhite(s))

LowerAll(s) == [i \in 1..Len(s) |-> Lower(s[i])]

\* /^(Post|Tweet)$/i.test(text.trim())
IsPublishLabel(label) ==
    LowerAll(Trim(label)) \in { <<"p","o","s","t">>, <<"t","w","e","e","t">> }

RECURSIVE ButtonLists(_)
ButtonLists(k) ==
    IF k = 0 THEN {<<>>}
    ELSE LET shorter == ButtonLists(k - 1)
         IN  shorter \cup {Append(l, b) : l \in shorter, b \in ButtonKinds}

\* Mutant of FindEnabledBtn: the scan stops at the first element with a publish
\* label, enabled or not.
FindEnabledBtn_FirstLabelMatch(btnEls) ==
    LET m == {i \in 1..Len(btnEls) : IsPublishLabel(btnEls[i].label)}
    IN  IF m = {} THEN 0
        ELSE LET f == CHOOSE i \in m : \A j \in m : i <= j
             IN  IF btnEls[f].disabled THEN 0 ELSE f

\* for (const btn of btnEls) { ... if (match && !disabled) { enabledBtn = btn; break; } }
\* The position of the element chosen, 0 when none qualifies.
FindEnabledBtn(btnEls) ==
    LET ok == {i \in 1..Len(btnEls) :
                 IsPublishLabel(btnEls[i].label) /\ ~btnEls[i].disabled}
    IN  IF ok = {} THEN 0 ELSE CHOOSE i \in ok : \A j \in ok : i <= j

\* cookie script: the outcome of page.$(selector) and of the enabled test, per selector.
\* The last two selectors use :has-text, which querySelector rejects: page.$ throws.
SelectorOutcomes ==
    {o \in [1..5 -> {"absent", "disabled", "enabled", "throws"}] :
        o[4] = "throws" /\ o[5] = "throws"}

\* for (const selector of postSelectors) { try { ...; if (isEnabled) break; } catch {} postButton = null; }
\* The selector whose element is kept, 0 when postButton ends null.
FindPostButton(o) ==
    LET ok == {i \in 1..5 : o[i] = "enabled"}
    IN  IF ok = {} THEN 0 ELSE CHOOSE i \in ok : \A j \in ok : i <= j

\* Mutant of ClicksAndBreaks: the handle found is never acted upon.
ClicksAndBreaks_Never(found) == FALSE

\* if (enabledBtn) / if (postButton): click and break out of the retry loop
ClicksAndBreaks(found) == found # 0

\* What the alert / dialog elements hold when they are read after the click: none
\* present, some present without failure text, some whose text contains "error",
\* "failed" or "try again".
Dialogs == {"none", "benign", "error"}

\* Mutant of AfterDialogScan: failure text in a dialog is raised as an error.
AfterDialogScan_ThrowOnErrorText(m) == IF m = "error" THEN "catch" ELSE "finally"

\* if (modals.length) console.log(...) / if (errorModals.length > 0) console.warn(...)
\* else console.log(...): both branches only log, and the try block ends.
AfterDialogScan(m) == "finally"

\* Mutant of Scanned: the loop retries at once, without the 2 second sleep.
Scanned_NoBackoff(found) ==
    [pub EXCEPT !.scans = @ + 1,
                !.foundAt = IF found # 0 /\ @ = 0 THEN attempt + 1 ELSE @]

\* History of the search after one more scan: foundAt is the number of the first
\* attempt whose scan found an enabled publish control; a scan that does not end in
\* the click is followed by sleep(2000).
Scanned(found) ==
    [pub EXCEPT !.scans = @ + 1,
                !.foundAt = IF found # 0 /\ @ = 0 THEN attempt + 1 ELSE @,
                !.sleeps = IF ClicksAndBreaks(found) THEN @ ELSE @ + 1]

----------------------------------------------------------------------------
(* post_and_archive.js: the browser phase *)

IsCred == script = "cred"

\* An await inside the try block rejects: control goes to the catch block.
CredThrow(e) ==
    /\ err' = e
    /\ thrown' = e
    /\ pc' = "catch"

\* browser = await puppeteer.launch(...)
CredLaunch ==
    /\ IsCred /\ pc = "launch"
    /\ \/ browser' = "open" /\ pc' = "newPage" /\ UNCHANGED <<err, thrown>>
       \/ CredThrow("launch") /\ UNCHANGED browser
    /\ UNCHANGED <<envVars, cf, hist, selVars, cookies, cookieLog, page, loggedIn, login,
                   attachSeen, attempt, pub, diag, mail, exit>>

\* page = await browser.newPage(); setUserAgent; setViewport; setDefaultTimeout
CredNewPage ==
    /\ IsCred /\ pc = "newPage"
    /\ \/ page' = TRUE /\ pc' = "gotoLogin" /\ UNCHANGED <<err, thrown>>
       \/ CredThrow("newPage") /\ UNCHANGED page       \* newPage rejects
       \/ CredThrow("newPage") /\ page' = TRUE         \* setUserAgent or setViewport rejects
    /\ UNCHANGED <<envVars, cf, hist, selVars, cookies, cookieLog, browser, loggedIn, login,
                   attachSeen, attempt, pub, diag, mail, exit>>

\* page.goto(x.com login), falling back to twitter.com; both failing rejects.
CredGotoLogin ==
    /\ IsCred /\ pc = "gotoLogin"
    /\ \/ pc' = "probe" /\ UNCHANGED <<err, thrown>>
       \/ CredThrow("gotoLogin")
    /\ UNCHANGED <<envVars, cf, hist, selVars, brVars, diag, mail, exit>>

\* Mutant of NeedsLogin: the negation is dropped.
NeedsLogin_Inverted(markerPresent) == markerPresent

\* if (!(await isAlreadyLoggedIn()))
NeedsLogin(markerPresent) == ~markerPresent

\* isAlreadyLoggedIn(): page.$(selector), FALSE when it throws.
CredProbe ==
    /\ IsCred /\ pc = "probe"
    /\ \E marker \in BOOLEAN :
        /\ loggedIn' = IF marker THEN "yes" ELSE "no"
        /\ pc' = IF NeedsLogin(marker) THEN "waitId" ELSE "compose"
    /\ UNCHANGED <<envVars, cf, hist, selVars, cookies, cookieLog, browser, page, login,
                   attachSeen, attempt, pub, errVars, exit>>

\* Mutant of LoginThrow: a failed login step starts the login flow again.
LoginThrow_RetryLogin == pc' = "waitId"

\* An await inside the login try block rejects: diagnostics first, then rethrow.
LoginThrow == pc' = "loginDiag"

\* waitForSelector(usernameSelector); page.type(identifier); press Enter
CredTypeId ==
    /\ IsCred /\ pc = "waitId"
    /\ \/ /\ login' = [login EXCEPT !.idWaits = @ + 1, !.idTyped = @ + 1]
          /\ pc' = "waitPw"
       \/ /\ login' = [login EXCEPT !.idWaits = @ + 1]     \* the wait times out
          /\ LoginThrow
       \/ /\ login' = [login EXCEPT !.idWaits = @ + 1, !.idTyped = @ + 1]
          /\ LoginThrow                                   \* page.type or press(Enter) rejects
    /\ UNCHANGED <<envVars, cf, hist, selVars, cookies, cookieLog, browser, page, loggedIn,
                   attachSeen, attempt, pub, errVars, exit>>

\* waitForSelector(password, timeout 20000); on timeout the identifier is retyped
\* when its field is still there, and the password field is waited for again.
CredWaitPw ==
    /\ IsCred /\ pc = "waitPw"
    /\ \/ /\ login' = [login EXCEPT !.pwWaits = @ + 1]
          /\ pc' = "typePw"
       \/ \E second \in BOOLEAN, appears \in BOOLEAN :
          /\ login' = [login EXCEPT !.pwWaits = @ + 2,
                                    !.pwTimeouts = IF appears THEN @ + 1 ELSE @ + 2,
                                    !.idTyped = IF second THEN @ + 1 ELSE @]
          /\ IF appears THEN pc' = "typePw" ELSE LoginThrow
       \/ /\ login' = [login EXCEPT !.pwWaits = @ + 1,   \* page.$ or page.evaluate rejects
                                    !.pwTimeouts = @ + 1] \* in the handler
          /\ LoginThrow
       \/ /\ login' = [login EXCEPT !.pwWaits = @ + 1,   \* the identifier is retyped and
                                    !.pwTimeouts = @ + 1, \* page.type or press(Enter) rejects
                                    !.idTyped = @ + 1]
          /\ LoginThrow
    /\ UNCHANGED <<envVars, cf, hist, selVars, cookies, cookieLog, browser, page, loggedIn,
                   attachSeen, attempt, pub, errVars, exit>>

\* page.type(password); press Enter; waitForNavigation
CredTypePw ==
    /\ IsCred /\ pc = "typePw"
    /\ login' = [login EXCEPT !.pwTyped = @ + 1]
    /\ \/ pc' = "compose"
       \/ LoginThrow
    /\ UNCHANGED <<envVars, cf, hist, selVars, cookies, cookieLog, browser, page, loggedIn,
                   attachSeen, attempt, pub, errVars, exit>>

\* catch (e) of the login flow: screenshot and markup, each in its own try; throw e
CredLoginDiag ==
    /\ IsCred /\ pc = "loginDiag"
    /\ login' = [login EXCEPT !.diag = TRUE]
    /\ CredThrow("login")
    /\ UNCHANGED <<envVars, cf, hist, selVars, cookies, cookieLog, browser, page, loggedIn,
                   attachSeen, attempt, pub, diag, mail, exit>>

\* page.goto(compose); waitForSelector(tweetTextarea_0)
CredCompose ==
    /\ IsCred /\ pc = "compose"
    /\ \/ pc' = "upload" /\ UNCHANGED <<err, thrown>>
       \/ CredThrow("compose")
    /\ UNCHANGED <<envVars, cf, hist, selVars, brVars, diag, mail, exit>>

\* waitForSelector(input[type=file]); uploadFile(filePath); sleep(4000)
CredUpload ==
    /\ IsCred /\ pc = "upload"
    /\ \/ pc' = "scan" /\ attempt' = 0 /\ UNCHANGED <<err, thrown>>
       \/ CredThrow("upload") /\ UNCHANGED attempt
    /\ UNCHANGED <<envVars, cf, hist, selVars, cookies, cookieLog, browser, page, loggedIn,
                   login, attachSeen, pub, diag, mail, exit>>

\* One iteration of the retry loop up to the test of enabledBtn.
CredScan ==
    /\ IsCred /\ pc = "scan" /\ attempt < PublishAttempts
    /\ \/ \E btnEls \in ButtonLists(MaxButtons) :
            LET found == FindEnabledBtn(btnEls) IN
            /\ pub' = Scanned(found)
            /\ IF ClicksAndBreaks(found)
               THEN pc' = "click" /\ UNCHANGED attempt
               ELSE attempt' = attempt + 1 /\ UNCHANGED pc     \* sleep(2000); ++attempt
            /\ UNCHANGED <<err, thrown>>
       \/ /\ pub' = [pub EXCEPT !.scans = @ + 1]    \* page.$$ or page.evaluate rejects
          /\ CredThrow("scan")
          /\ UNCHANGED attempt
    /\ UNCHANGED <<envVars, cf, hist, selVars, cookies, cookieLog, browser, page, loggedIn,
                   login, attachSeen, diag, mail, exit>>

\* await enabledBtn.click(); posted = true;
CredClick ==
    /\ IsCred /\ pc = "click"
    /\ \/ /\ pub' = [pub EXCEPT !.clicks = @ + 1, !.posted = TRUE]
          /\ pc' = "shotAfterClick"
          /\ UNCHANGED <<err, thrown>>
       \/ /\ pub' = [pub EXCEPT !.clicks = @ + 1]
          /\ CredThrow("click")
    /\ UNCHANGED <<envVars, cf, hist, selVars, cookies, cookieLog, browser, page, loggedIn,
                   login, attachSeen, attempt, diag, mail, exit>>

\* await page.screenshot(after_post_click); break;
CredShotAfterClick ==
    /\ IsCred /\ pc = "shotAfterClick"
    /\ \/ pc' = "verify" /\ UNCHANGED <<err, thrown>>
       \/ CredThrow("shotAfterClick")
    /\ UNCHANGED <<envVars, cf, hist, selVars, brVars, diag, mail, exit>>

\* if (posted): sleep(5000); screenshot; $$eval of the dialogs; logs
CredVerify ==
    /\ IsCred /\ pc = "verify"
    /\ \/ \E m \in Dialogs :
            /\ pub' = [pub EXCEPT !.modals = m]
            /\ pc' = AfterDialogScan(m)
            /\ UNCHANGED <<err, thrown>>
       \/ CredThrow("verify") /\ UNCHANGED pub      \* the screenshot or $$eval rejects
    /\ UNCHANGED <<envVars, cf, hist, selVars, cookies, cookieLog, browser, page, loggedIn,
                   login, attachSeen, attempt, diag, mail, exit>>

\* The loop ran out of attempts: else branch of if (posted):
\* page.content(); writeFileSync(tweet_compose_latest.html); throw new Error(...)
CredExhausted ==
    /\ IsCred /\ pc = "scan" /\ attempt >= PublishAttempts
    /\ \/ /\ pub' = [pub EXCEPT !.exhausted = TRUE, !.dump = "written"]
          /\ CredThrow("PublishControlNotFound")
       \/ /\ pub' = [pub EXCEPT !.exhausted = TRUE, !.dump = "failed"]
          /\ err' = "PublishControlNotFound"     \* page.content() or writeFileSync throws
          /\ thrown' = "dump"
          /\ pc' = "catch"
    /\ UNCHANGED <<envVars, cf, hist, selVars, cookies, cookieLog, browser, page, loggedIn,
                   login, attachSeen, attempt, diag, mail, exit>>

\* What the diagnostics try block of the catch handler leaves: a screenshot and a
\* markup dump are attempted only when page is set; a failure is logged, not thrown.
CatchDiagnostics(hasPage, failed) ==
    IF hasPage THEN [tried |-> TRUE, failed |-> failed]
               ELSE [tried |-> FALSE, failed |-> FALSE]

\* Mutant of CredCatch: the handler puts the cursor file back as the run found it.
CredCatch_Rollback ==
    /\ script = "cred" /\ pc = "catch"
    /\ \E failed \in BOOLEAN : diag' = CatchDiagnostics(page, failed)
    /\ \E m \in {"sent", "rejected"} : mail' = m
    /\ pc' = "finally"
    /\ cf' = cfStart
    /\ UNCHANGED <<envVars, hist, selVars, brVars, err, thrown, exit>>

\* catch (error) { diagnostics; try { await sendErrorEmail(...) } catch {...}; throw error; }
\* A throw inside the child-process callbacks of sendErrorEmail (fs.unlinkSync) is an
\* uncaught exception: the process dies there, no finally block runs.
CredCatch ==
    /\ IsCred /\ pc = "catch"
    /\ \E failed \in BOOLEAN : diag' = CatchDiagnostics(page, failed)
    /\ \/ \E m \in {"sent", "rejected"} :
            /\ mail' = m
            /\ pc' = "finally"
            /\ UNCHANGED exit
       \/ /\ mail' = "crashed"
          /\ EndProcess("uncaught")
    /\ UNCHANGED <<envVars, cf, hist, selVars, brVars, err, thrown>>

\* finally { if (browser) await browser.close(); }  then the async function settles.
\* A rejection of browser.close() replaces whatever the function was about to settle
\* with.  While browser.close() is awaited, the 'close' event of a curl that could not
\* be spawned runs fs.unlinkSync on the file the 'error' callback already removed: an
\* uncaught exception, the process dies with the close call not settled.
CredFinally ==
    /\ IsCred /\ pc = "finally"
    /\ \/ /\ browser' = IF browser = "open" THEN "closed" ELSE browser
          /\ EndProcess(IF thrown = "none" THEN "ok" ELSE "rejected")
          /\ UNCHANGED thrown
       \/ /\ browser = "open"                    \* browser.close() rejects
          /\ thrown' = "close"
          /\ EndProcess("rejected")
          /\ UNCHANGED browser
       \/ /\ browser = "open" /\ mail = "rejected"
          /\ EndProcess("uncaught")
          /\ UNCHANGED <<browser, thrown>>
    /\ UNCHANGED <<envVars, cf, hist, selVars, cookies, cookieLog, page, loggedIn, login,
                   attachSeen, attempt, pub, err, diag, mail>>

CredNext ==
    \/ CredLaunch \/ CredNewPage \/ CredGotoLogin \/ CredProbe
    \/ CredTypeId \/ CredWaitPw \/ CredTypePw \/ CredLoginDiag
    \/ CredCompose \/ CredUpload \/ CredScan \/ CredClick \/ CredShotAfterClick
    \/ CredVerify \/ CredExhausted \/ CredCatch \/ CredFinally

----------------------------------------------------------------------------
(* The cookie-session script: the browser phase *)

IsCookie == script = "cookie"

\* An await inside the try block rejects: control goes to the catch block.
KThrow(e) ==
    /\ err' = IF err = "none" THEN e ELSE err
    /\ thrown' = e
    /\ pc' = "catch"

\* An await before the try block rejects: the async function rejects at once.
KReject(e) ==
    /\ err' = e
    /\ thrown' = e
    /\ EndProcess("rejected")

\* const browser = await puppeteer.launch(...)   (before the try block)
KLaunch ==
    /\ IsCookie /\ pc = "launch"
    /\ \/ browser' = "open" /\ pc' = "newPage" /\ UNCHANGED <<err, thrown, exit>>
       \/ KReject("launch") /\ UNCHANGED browser
    /\ UNCHANGED <<envVars, cf, hist, selVars, cookies, cookieLog, page, loggedIn, login,
                   attachSeen, attempt, pub, diag, mail>>

\* const page = await browser.newPage(); setViewport; setUserAgent  (before the try block)
KNewPage ==
    /\ IsCookie /\ pc = "newPage"
    /\ \/ page' = TRUE /\ pc' = "gotoX" /\ UNCHANGED <<err, thrown, exit>>
       \/ KReject("newPage") /\ UNCHANGED page         \* newPage rejects
       \/ KReject("newPage") /\ page' = TRUE           \* setViewport or setUserAgent rejects
    /\ UNCHANGED <<envVars, cf, hist, selVars, cookies, cookieLog, browser, loggedIn, login,
                   attachSeen, attempt, pub, diag, mail>>

\* catch (e) { console.warn(`Failed to set cookie ${cookie.name}:`, e.message) }
\* The positions at which the handler of the first loop itself throws: cookie.name is
\* a TypeError when the record is the JSON value null.  That error is raised inside
\* the handler, so it leaves the loop for the catch block of the run.
HandlerThrows(failing, nulls) == failing \cap nulls

\* for (const cookie of cookies) { try { await page.setCookie(cookie) } catch (e) {...} }
\* The number of setCookie calls the first loop makes on a list of n records when the
\* calls at the positions in `failing` reject and the records at the positions in
\* `nulls` are null: all n, unless the handler throws, which ends the loop at that call.
ApplyCookies(n, failing, nulls) ==
    IF HandlerThrows(failing, nulls) = {} THEN n
    ELSE CHOOSE i \in HandlerThrows(failing, nulls) :
             \A j \in HandlerThrows(failing, nulls) : i <= j

\* page.goto(x.com); the first cookie loop
KSetCookies ==
    /\ IsCookie /\ pc = "gotoX"
    /\ \/ \E nulls \in SUBSET (1..cookies) : \E failing \in SUBSET (1..cookies) :
            LET calls == ApplyCookies(cookies, failing, nulls) IN
            /\ cookieLog' = [cookieLog EXCEPT
                                !.primary = calls,
                                !.rejected = @ + Cardinality(failing \cap (1..calls)),
                                !.nulls = IF HandlerThrows(failing, nulls) = {}
                                          THEN Cardinality(nulls) ELSE 0]
            /\ IF HandlerThrows(failing, nulls) = {}
               THEN pc' = "gotoTwitter" /\ UNCHANGED <<err, thrown>>
               ELSE KThrow("gotoX")
       \/ KThrow("gotoX") /\ UNCHANGED cookieLog        \* page.goto rejects
    /\ UNCHANGED <<envVars, cf, hist, selVars, cookies, browser, page, loggedIn, login,
                   attachSeen, attempt, pub, diag, mail, exit>>

\* page.goto(twitter.com); the loop over the domain-rewritten copies.  For a record
\* without a domain field (a null record is one) cookie.domain.replace throws inside
\* the try: the empty catch swallows it and setCookie is not called for that record.
\* The handler is empty, so this loop always runs over all the records.
KSetAliasCookies ==
    /\ IsCookie /\ pc = "gotoTwitter"
    /\ \/ /\ \E noDomain \in SUBSET (1..cookies) :
             \E failing \in SUBSET ((1..cookies) \ noDomain) :
               /\ Cardinality(noDomain) >= cookieLog.nulls
               /\ cookieLog' = [cookieLog EXCEPT
                                   !.alias = cookies - Cardinality(noDomain),
                                   !.skipped = Cardinality(noDomain),
                                   !.nulls = 0,
                                   !.rejected = @ + Cardinality(failing)]
          /\ pc' = "gotoHome"
          /\ UNCHANGED <<err, thrown>>
       \/ KThrow("gotoTwitter") /\ UNCHANGED cookieLog
    /\ UNCHANGED <<envVars, cf, hist, selVars, cookies, browser, page, loggedIn, login,
                   attachSeen, attempt, pub, diag, mail, exit>>

\* page.goto(x.com/home); isLoggedIn = await page.evaluate(...)
KCheckLogin ==
    /\ IsCookie /\ pc = "gotoHome"
    /\ \/ \E marker \in BOOLEAN :
            /\ loggedIn' = IF marker THEN "yes" ELSE "no"
            /\ pc' = IF marker THEN "compose" ELSE "loginFailed"
            /\ UNCHANGED <<err, thrown>>
       \/ KThrow("gotoHome") /\ UNCHANGED loggedIn
    /\ UNCHANGED <<envVars, cf, hist, selVars, cookies, cookieLog, browser, page, login,
                   attachSeen, attempt, pub, diag, mail, exit>>

\* if (!isLoggedIn) { screenshot; process.exit(1); }
\* process.exit ends the process inside the try block: the finally block never runs.
KLoginFailed ==
    /\ IsCookie /\ pc = "loginFailed"
    /\ \/ /\ err' = "LoginFailed"
          /\ EndProcess("exit1")
          /\ UNCHANGED thrown
       \/ /\ err' = "LoginFailed"              \* the screenshot rejects
          /\ thrown' = "loginShot"
          /\ pc' = "catch"
          /\ UNCHANGED exit
    /\ UNCHANGED <<envVars, cf, hist, selVars, brVars, diag, mail>>

\* page.goto(compose/post); waitForSelector(tweetTextarea_0)
KCompose ==
    /\ IsCookie /\ pc = "compose"
    /\ \/ pc' = "upload" /\ UNCHANGED <<err, thrown>>
       \/ KThrow("compose")
    /\ UNCHANGED <<envVars, cf, hist, selVars, brVars, diag, mail, exit>>

\* waitForSelector(input[type=file]); uploadFile(filePath); sleep(5000)
KUpload ==
    /\ IsCookie /\ pc = "upload"
    /\ \/ pc' = "waitAttach" /\ UNCHANGED <<err, thrown>>
       \/ KThrow("upload")
    /\ UNCHANGED <<envVars, cf, hist, selVars, brVars, diag, mail, exit>>

\* await page.waitForSelector('[data-testid="attachments"]', { timeout: 30000 })
KWaitAttach ==
    /\ IsCookie /\ pc = "waitAttach"
    /\ \/ attachSeen' = TRUE /\ pc' = "scan" /\ attempt' = 0 /\ UNCHANGED <<err, thrown>>
       \/ KThrow("UploadRejected") /\ UNCHANGED <<attachSeen, attempt>>
    /\ UNCHANGED <<envVars, cf, hist, selVars, cookies, cookieLog, browser, page, loggedIn,
                   login, pub, diag, mail, exit>>

\* One iteration of the retry loop up to the test of postButton.
KScan ==
    /\ IsCookie /\ pc = "scan" /\ attempt < CookiePublishAttempts
    /\ \E o \in SelectorOutcomes :
         LET found == FindPostButton(o) IN
         /\ pub' = Scanned(found)
         /\ IF ClicksAndBreaks(found)
            THEN pc' = "click" /\ UNCHANGED attempt
            ELSE attempt' = attempt + 1 /\ UNCHANGED pc        \* sleep(2000); ++attempt
    /\ UNCHANGED <<envVars, cf, hist, selVars, cookies, cookieLog, browser, page, loggedIn,
                   login, attachSeen, errVars, exit>>

\* await postButton.click(); posted = true;
KClick ==
    /\ IsCookie /\ pc = "click"
    /\ \/ /\ pub' = [pub EXCEPT !.clicks = @ + 1, !.posted = TRUE]
          /\ pc' = "shotAfterClick"
          /\ UNCHANGED <<err, thrown>>
       \/ /\ pub' = [pub EXCEPT !.clicks = @ + 1]
          /\ KThrow("click")
    /\ UNCHANGED <<envVars, cf, hist, selVars, cookies, cookieLog, browser, page, loggedIn,
                   login, attachSeen, attempt, diag, mail, exit>>

\* await page.screenshot(after_post_click); break;
KShotAfterClick ==
    /\ IsCookie /\ pc = "shotAfterClick"
    /\ \/ pc' = "verify" /\ UNCHANGED <<err, thrown>>
       \/ KThrow("shotAfterClick")
    /\ UNCHANGED <<envVars, cf, hist, selVars, brVars, diag, mail, exit>>

\* if (posted): sleep(5000); screenshot; $$eval of the dialogs; logs
KVerify ==
    /\ IsCookie /\ pc = "verify"
    /\ \/ \E m \in Dialogs :
            /\ pub' = [pub EXCEPT !.modals = m]
            /\ pc' = AfterDialogScan(m)
            /\ UNCHANGED <<err, thrown>>
       \/ KThrow("verify") /\ UNCHANGED pub         \* the screenshot or $$eval rejects
    /\ UNCHANGED <<envVars, cf, hist, selVars, cookies, cookieLog, browser, page, loggedIn,
                   login, attachSeen, attempt, diag, mail, exit>>

\* The loop ran out of attempts: else branch of if (posted):
\* console.error(...); screenshot(post_button_search_failed.png).  Nothing is thrown.
KExhausted ==
    /\ IsCookie /\ pc = "scan" /\ attempt >= CookiePublishAttempts
    /\ pub' = [pub EXCEPT !.exhausted = TRUE]
    /\ err' = "PublishControlNotFound"
    /\ \/ pc' = "finally" /\ UNCHANGED thrown
       \/ thrown' = "exhaustedShot" /\ pc' = "catch"
    /\ UNCHANGED <<envVars, cf, hist, selVars, cookies, cookieLog, browser, page, loggedIn,
                   login, attachSeen, attempt, diag, mail, exit>>

\* catch (error) { screenshot; page.content(); writeFileSync; }  The error is not
\* rethrown; a rejection inside the handler leaves it as a new error.
KCatch ==
    /\ IsCookie /\ pc = "catch"
    /\ \/ diag' = [tried |-> TRUE, failed |-> FALSE] /\ thrown' = "none"
       \/ diag' = [tried |-> TRUE, failed |-> TRUE] /\ thrown' = "diag"
    /\ pc' = "finally"
    /\ UNCHANGED <<envVars, cf, hist, selVars, brVars, err, mail, exit>>

\* finally { await browser.close(); }  then the async function settles.
\* A rejection of browser.close() rejects the function whatever came before.
KFinally ==
    /\ IsCookie /\ pc = "finally"
    /\ \/ /\ browser' = "closed"
          /\ EndProcess(IF thrown = "none" THEN "ok" ELSE "rejected")
          /\ UNCHANGED thrown
       \/ /\ thrown' = "close"                   \* browser.close() rejects
          /\ EndProcess("rejected")
          /\ UNCHANGED browser
    /\ UNCHANGED <<envVars, cf, hist, selVars, cookies, cookieLog, page, loggedIn, login,
                   attachSeen, attempt, pub, err, diag, mail>>

CookieNext ==
    \/ KLaunch \/ KNewPage \/ KSetCookies \/ KSetAliasCookies \/ KCheckLogin
    \/ KLoginFailed \/ KCompose \/ KUpload \/ KWaitAttach \/ KScan \/ KClick
    \/ KShotAfterClick \/ KVerify \/ KExhausted \/ KCatch \/ KFinally

----------------------------------------------------------------------------
(* The specification *)

Next == SelectionNext \/ CredNext \/ CookieNext

Spec == Init /\ [][Next]_vars

\* One run of either script from any initial directory and cursor file.
StartOnlyRun == pc = "idle" /\ StartRun

OneRunNext ==
    \/ StartOnlyRun \/ LoadCookies \/ ListAndCheck \/ LoadCounter \/ SelectFile
    \/ WriteCounter \/ CredNext \/ CookieNext

\* Every await of a run settles (navigation, selector waits and protocol calls have
\* their own timeouts, sleeps are timers), so a run that can take a step takes one.
FairOneRun == Init /\ [][OneRunNext]_vars /\ WF_vars(OneRunNext)

----------------------------------------------------------------------------
(* Two overlapping processes in the selection code.  The statements of lines 104-134
   are synchronous inside one process, but two processes started on the same media
   directory interleave between their file system calls; the file has no lock. *)

Procs == {1, 2}

Unread == [kind |-> "unread", text |-> <<>>]

ProcStart == [pc |-> "list", files |-> <<>>, idx |-> 0, fileToPost |-> <<>>,
              cfRead |-> Unread, wrote |-> "no"]

\* The variables of the single-run specification, idle.
RunIdle ==
    /\ writeFails = 0
    /\ runs = 0
    /\ hist = <<>>
    /\ script = "cred"
    /\ pc = "idle"
    /\ cfStart = cf
    /\ files = <<>>
    /\ idx = 0
    /\ fileToPost = <<>>
    /\ wr = NoWrite
    /\ cfAfterWrite = cf
    /\ cookies = 0
    /\ cookieLog = NoCookieLog
    /\ browser = "none"
    /\ page = FALSE
    /\ loggedIn = "unknown"
    /\ login = NoLogin
    /\ attachSeen = FALSE
    /\ attempt = 0
    /\ pub = NoPub
    /\ err = "none"
    /\ thrown = "none"
    /\ diag = NoDiag
    /\ mail = "none"
    /\ exit = "none"
    /\ prevWrite = "none"

runVars == <<runs, hist, script, pc, cfStart, selVars, brVars, errVars, exit, prevWrite>>

RaceInit ==
    /\ dir \in DirSnapshots
    /\ cf \in CursorStates
    /\ RunIdle
    /\ race = [p \in Procs |-> ProcStart]
    /\ trial = NoTrial

\* readdirSync + filter + sort, then the empty check (process.exit(1)).
RaceList ==
    \E p \in Procs :
        /\ race[p].pc = "list"
        /\ LET fs == ListFiles(dir, cf) IN
             race' = [race EXCEPT ![p].files = fs,
                                  ![p].pc = IF IsEmptyQueue(fs) THEN "exit1" ELSE "counter"]
        /\ UNCHANGED <<dir, cf, writeFails, trial, runVars>>

\* Load counter.
RaceLoad ==
    \E p \in Procs :
        /\ race[p].pc = "counter"
        /\ race' = [race EXCEPT ![p].idx = LoadIdx(cf, Len(race[p].files)),
                                ![p].cfRead = cf,
                                ![p].pc = "select"]
        /\ UNCHANGED <<dir, cf, writeFails, trial, runVars>>

\* const fileToPost = files[idx]; path.join throws on undefined.
RaceSelect ==
    \E p \in Procs :
        /\ race[p].pc = "select"
        /\ race' = IF HasFileAt(race[p].files, race[p].idx)
                   THEN [race EXCEPT ![p].fileToPost = race[p].files[race[p].idx + 1],
                                     ![p].pc = "write"]
                   ELSE [race EXCEPT ![p].pc = "rejected"]
        /\ UNCHANGED <<dir, cf, writeFails, trial, runVars>>

\* Mutant of StaleNextIdx: the cursor file is read again when it is written.
StaleNextIdx_Reread(i, c, n) == NextIdx(LoadIdx(c, n), n)

\* The value written: computed from the idx loaded earlier, whatever the cursor
\* file holds by now.
StaleNextIdx(i, c, n) == NextIdx(i, n)

\* Bytes written at offset 0 of a file that holds old: what lies beyond them stays.
Overlay(old, t) == t \o SubSeq(old, Len(t) + 1, Len(old))

\* fs.writeFileSync, first system call: open with flag 'w', which truncates the file.
\* Another process may run between this call and the write.
RaceOpen ==
    \E p \in Procs :
        /\ race[p].pc = "write"
        /\ \/ /\ cf' = Stored(cf, <<>>)
              /\ race' = [race EXCEPT ![p].pc = "writing"]
              /\ UNCHANGED writeFails
           \/ /\ writeFails < MaxWriteFailures      \* the open fails: writeFileSync throws
              /\ writeFails' = writeFails + 1
              /\ race' = [race EXCEPT ![p].wrote = "failed", ![p].pc = "browser"]
              /\ UNCHANGED cf
        /\ UNCHANGED <<dir, trial, runVars>>

\* fs.writeFileSync, second system call: the write of nextIdx.toString() at offset 0;
\* then the process goes on to the browser.
RaceWrite ==
    \E p \in Procs :
        /\ race[p].pc = "writing"
        /\ \/ /\ cf' = Stored(cf, Overlay(cf.text,
                         NumToString(StaleNextIdx(race[p].idx, cf, Len(race[p].files)))))
              /\ race' = [race EXCEPT ![p].wrote = "ok", ![p].pc = "browser"]
              /\ UNCHANGED writeFails
           \/ /\ writeFails < MaxWriteFailures      \* the write fails: writeFileSync throws
              /\ writeFails' = writeFails + 1
              /\ race' = [race EXCEPT ![p].wrote = "failed", ![p].pc = "browser"]
              /\ UNCHANGED cf
        /\ UNCHANGED <<dir, trial, runVars>>

RaceNext == RaceList \/ RaceLoad \/ RaceSelect \/ RaceOpen \/ RaceWrite

SpecRace == RaceInit /\ [][RaceNext]_vars

----------------------------------------------------------------------------
(* The button scan of post_and_archive.js applied to one list of elements *)

ScanInit ==
    /\ dir = {}
    /\ cf = Missing
    /\ RunIdle
    /\ race = NoRace
    /\ trial \in {[btnEls |-> l, chosen |-> 0, done |-> FALSE] : l \in ButtonLists(MaxScanLen)}

\* The for loop over btnEls of one attempt.
ScanTrial ==
    /\ ~trial.done
    /\ trial' = [trial EXCEPT !.chosen = FindEnabledBtn(trial.btnEls), !.done = TRUE]
    /\ UNCHANGED <<dir, cf, writeFails, race, runVars>>

ScanNext == ScanTrial

SpecScan == ScanInit /\ [][ScanNext]_vars

----------------------------------------------------------------------------
(* Properties *)

\* Length of the queue of the directory snapshot of this behaviour.
QueueLen == Cardinality({f \in dir : MatchesMedia(f)})

\* The run has selected a file.
Selected == fileToPost # <<>>

\* A process that ended with a failure status.
FailedExit == exit \in {"exit1", "rejected", "uncaught"}

\* The value (idx + 1) mod n of the current run.
Advanced == (idx + 1) % Len(files)

\* C1: for a fixed directory snapshot with n >= 1 eligible files, as long as no
\* cursor write has failed, consecutive runs of the selection step each select a
\* file, the first one the file at the stored cursor when that is a valid index,
\* each next one the following file in sorted order, cyclically: n consecutive runs
\* select n different files and the (n+1)-th selects the first one again.
C1_CycleProperty ==
    (QueueLen >= 1 /\ writeFails = 0) =>
        /\ \A i \in 1..Len(hist) : hist[i] \in 0..(QueueLen - 1)
        /\ \A i \in 1..(Len(hist) - 1) : hist[i + 1] = (hist[i] + 1) % QueueLen
        /\ \A i, j \in 1..Len(hist) : (i < j /\ j - i < QueueLen) => hist[i] # hist[j]
        /\ \A i \in 1..Len(hist) : (i + QueueLen <= Len(hist)) => hist[i + QueueLen] = hist[i]
        /\ (Len(hist) = 1 /\ pc = "write" /\ cfStart.kind = "text"
              /\ ~ParseInt(cfStart.text).isNaN
              /\ ParseInt(cfStart.text).val \in 0..(QueueLen - 1))
           => hist[1] = ParseInt(cfStart.text).val

\* The cursor file is missing, unreadable, unparsable or out of range for n files.
MalformedCursor(c, n) ==
    \/ c.kind \in {"missing", "unreadable"}
    \/ ParseInt(c.text).isNaN
    \/ ParseInt(c.text).val >= n
    \/ ParseInt(c.text).val < 0

\* C2: a run that finds the cursor file missing, unreadable, unparsable, or holding
\* a value >= n or a negative value, with n >= 1 eligible files, selects the first
\* file in sorted order, writes 1 mod n and does not fail because of the cursor.
C2_MalformedCursorAsZero ==
    (Len(files) >= 1 /\ MalformedCursor(cfStart, Len(files))
       /\ pc \notin {"list", "counter", "select"})
    => /\ err # "TypeError"
       /\ idx = 0
       /\ fileToPost = files[1]
       /\ (pc # "write" => wr.tried /\ wr.val = 1 % Len(files))

\* C3: with no eligible file in the media directory, a run never gets past the
\* empty check: it launches no browser, makes no cursor write and leaves the cursor
\* file as it found it, and it ends with exit status 1, on the empty check itself
\* unless the cookie-session script already exited on its cookie file.
C3_EmptyQueueNoWrite ==
    (QueueLen = 0) =>
        /\ pc \in {"idle", "loadCookies", "list", "done"}
        /\ browser = "none" /\ ~page
        /\ ~wr.tried
        /\ cf = cfStart
        /\ pc = "done" =>
             /\ exit = "exit1"
             /\ err = "EmptyQueue" \/ (script = "cookie" /\ err = "CookieLoad")

C3_Witness ==
    QueueLen = 0 /\ pc = "done" /\ err = "EmptyQueue" /\ exit = "exit1" /\ cf.kind = "text"

\* C4: in every run that has selected the file at index idx of a queue of n files,
\* the write of (idx + 1) mod n to the cursor file is the very next step, made before
\* the browser is launched or a page exists; the file holds that value from then on
\* unless the write itself failed.
C4_CursorWrittenBeforeLaunch ==
    /\ Selected => idx \in 0..(Len(files) - 1) /\ fileToPost = files[idx + 1]
    /\ (Selected /\ ~wr.tried) => pc = "write"
    /\ ~wr.tried => (browser = "none" /\ ~page /\ pc \notin {"launch", "newPage"})
    /\ wr.tried => /\ Selected
                   /\ wr.val = Advanced
                   /\ wr.ok => cfAfterWrite.text = NumToString(Advanced)

C4_Witness ==
    /\ browser = "open" /\ page /\ wr.ok /\ Len(files) = 3 /\ idx = 2
    /\ cf = Text(<<"0">>)

\* The cursor file a run writes is left alone by every later step of the run, so at
\* any later point it holds the advanced value written at selection time.
CursorKeptAfterWrite ==
    /\ wr.tried => cf = cfAfterWrite
    /\ (wr.tried /\ wr.ok) => cf.text = NumToString(Advanced)

\* Each run that selects a file selects the one following the previous selection.
SelectsFollowingFile ==
    \A i \in 1..(Len(hist) - 1) :
        (hist[i] >= 0 /\ hist[i + 1] >= 0) => hist[i + 1] = (hist[i] + 1) % QueueLen

\* C5, as stated: once a run has made its cursor write, no later step of the run
\* writes, restores or rolls back the cursor file, whatever stage fails; so while no
\* cursor write has failed, each run that selects a file selects the one following
\* the previous selection.
C5_NoRollbackAfterFailure ==
    /\ CursorKeptAfterWrite
    /\ writeFails = 0 => SelectsFollowingFile

\* C5, amended: once a run has made its cursor write, no later step of the run
\* writes, restores or rolls back the cursor file, whatever stage fails; so while no
\* cursor write has failed and the cursor file can be read, each run that selects a
\* file selects the one following the previous selection.  A cursor file that can be
\* written but not read is rewritten by every run and every run selects the first file.
C5_NoRollbackNextIfReadable ==
    /\ CursorKeptAfterWrite
    /\ (writeFails = 0 /\ cf.kind # "unreadable") => SelectsFollowingFile
    /\ (cf.kind = "unreadable" /\ QueueLen >= 1) =>
          \A i \in 1..Len(hist) : hist[i] = 0

C5_Witness ==
    /\ pc = "done" /\ exit = "rejected" /\ browser = "closed"
    /\ err = "PublishControlNotFound"
    /\ hist = <<0, 1>> /\ QueueLen = 3
    /\ cf = Text(<<"2">>)

\* C6: whenever a run that launched a browser has ended, the browser has been closed.
C6_BrowserAlwaysClosed ==
    (pc = "done" /\ browser # "none") => browser = "closed"

\* The attempt bound of the script of the current run.
MaxAttempts == IF script = "cred" THEN PublishAttempts ELSE CookiePublishAttempts

\* C7: within one run the publish control is clicked at most once and only after a
\* scan found an enabled one; when the first scan to find one is that of attempt k,
\* exactly k scans are made in the run, the loop variable never passes attempt k, and
\* the click is made on that attempt.
C7_ClickOnceAtFirstEnabled ==
    /\ pub.clicks <= 1
    /\ pub.scans <= MaxAttempts
    /\ pub.foundAt = 0 => (pub.clicks = 0 /\ ~pub.posted)
    /\ pub.foundAt > 0 =>
          /\ pub.scans = pub.foundAt
          /\ attempt = pub.foundAt - 1
          /\ pc # "scan"
          /\ pc # "click" => pub.clicks = 1
    /\ pub.posted => pub.clicks = 1

C7_Witness ==
    /\ script = "cred" /\ pc = "done"
    /\ pub.foundAt = 5 /\ pub.scans = 5 /\ pub.clicks = 1 /\ pub.posted

\* C8: a run whose publish-control search ran out of attempts has attempted a markup
\* dump of the page and ends with a failure status, never as a normal completion.
C8_ExhaustedSearchFails ==
    (pub.exhausted /\ pc = "done") => (pub.dump # "none" /\ FailedExit)

\* C9: a publish-control scan is made only after an attachment-accepted marker has
\* been observed, and a run in which the marker never appeared scans for and clicks
\* no publish control and ends with a failure status.
C9_ScanOnlyAfterAttachMarker ==
    /\ pub.scans > 0 => attachSeen
    /\ err = "UploadRejected" =>
          /\ pub.scans = 0 /\ pub.clicks = 0
          /\ pc = "done" => FailedExit

\* C10: in a run whose probe found the authenticated-state marker, the interactive
\* login path is never entered: no identifier or secret field is waited for or
\* typed into, and no login diagnostics are taken.
C10_NoLoginWhenAuthenticated ==
    loggedIn = "yes" => login = NoLogin

C10_Witness ==
    script = "cred" /\ loggedIn = "yes" /\ pc = "done" /\ pub.posted /\ exit = "ok"

\* C11: in the cookie-session script, a run whose cookies were applied and whose
\* probe found no marker goes through the interactive login flow (identifier, then
\* secret) before it can fail with LoginFailed.
C11_LoginFallbackAfterCookies ==
    (script = "cookie" /\ err = "LoginFailed") =>
        (login.idTyped >= 1 /\ login.pwTyped >= 1)

\* The positions of post_and_archive.js from the compose navigation to the last
\* step before the cleanup block.
ComposeOrLater == {"compose", "upload", "scan", "click", "shotAfterClick", "verify"}

\* C12: in post_and_archive.js, a run whose login flow has completed (secret
\* submitted, navigation settled) is at or past the compose navigation only when a
\* probe has found an authenticated-state marker.
C12_ReprobeAfterLogin ==
    (script = "cred" /\ login.pwTyped >= 1 /\ pc \in ComposeOrLater) => loggedIn = "yes"

\* C13: within one run the interactive login is never retried: the identifier field
\* is waited for once, the secret is typed and submitted at most once, the identifier
\* is typed at most twice, the second time only after the first bounded wait for the
\* secret field timed out; an error of the login flow is raised only after the login
\* diagnostics were attempted, and nothing of the login flow runs after them.
C13_LoginNeverRetried ==
    /\ login.idWaits <= 1
    /\ login.pwTyped <= 1
    /\ login.idTyped <= 2
    /\ login.pwWaits <= 2
    /\ login.idTyped = 2 => login.pwTimeouts >= 1
    /\ login.pwWaits = 2 => login.pwTimeouts >= 1
    /\ thrown = "login" => login.diag
    /\ login.diag => (err = "login" /\ pc \in {"catch", "finally", "done"})

C13_Witness ==
    /\ script = "cred" /\ pc = "done" /\ exit = "rejected"
    /\ login.idTyped = 2 /\ login.pwWaits = 2 /\ login.pwTyped = 1
    /\ login.diag /\ thrown = "login"

\* C14: in a run whose dialog scan after the click has been made, whatever the
\* alert / dialog elements held (nothing, other text, or text containing "error",
\* "failed" or "try again"), the run counts as posted, the scan raises no error and
\* the run goes straight to closing the browser; the process then completes normally,
\* the one exception being a rejection of browser.close() itself, which leaves the
\* browser open.
C14_DialogsNeverChangeOutcome ==
    pub.modals # "unseen" =>
        /\ pub.posted /\ pub.clicks = 1
        /\ err = "none" /\ thrown \in {"none", "close"}
        /\ pc \in {"finally", "done"}
        /\ pc = "finally" => thrown = "none"
        /\ pc = "done" => /\ exit = (IF thrown = "none" THEN "ok" ELSE "rejected")
                          /\ thrown = "close" <=> browser = "open"

C14_Witness ==
    pub.modals = "error" /\ pub.posted /\ pc = "done" /\ exit = "ok" /\ script = "cookie"

\* C15: once the publish control has been clicked in a run, no later step raises an
\* error, and the process completes normally.
C15_ClickedMeansPosted ==
    pub.posted =>
        /\ err = "none" /\ thrown = "none"
        /\ pc = "done" => exit = "ok"

\* C16: when the failure-time capture of the error handler, or the markup dump of the
\* exhausted publish-control search, itself fails, the error that propagates is still
\* the one the run had failed with.
C16_DiagnosticsNeverMask ==
    (diag.failed \/ pub.dump = "failed") => thrown = err

\* C17: a run in which a fatal condition arose after the page existed ends with a
\* failure status, after the failure-time capture was attempted (for the login check
\* of the cookie-session script, its own snapshot).
C17_FatalConditionsPropagate ==
    (page /\ err # "none" /\ pc = "done") =>
        /\ FailedExit
        /\ diag.tried \/ (script = "cookie" /\ err = "LoginFailed")

\* C18: in the cookie-session script, however many setCookie calls reject, every
\* cookie record is attempted on the primary domain and then on the alias domain
\* (where a record without a domain field fails before its setCookie call, and is
\* skipped like a rejected one), no error is raised by the loops, and the run goes on
\* to the authenticated-state probe: once the first loop has made a call it has made
\* one for every record, and a run that failed at that stage had no call rejected.
C18_CookieFailuresSwallowed ==
    script = "cookie" =>
        /\ cookieLog.primary \in {0, cookies}
        /\ err = "gotoX" => cookieLog.rejected = 0
        /\ pc = "gotoTwitter" => (cookieLog.primary = cookies /\ err = "none")
        /\ pc = "gotoHome" =>
              /\ cookieLog.primary = cookies
              /\ cookieLog.alias + cookieLog.skipped = cookies
              /\ err = "none"
        /\ loggedIn # "unknown" =>
              /\ cookieLog.primary = cookies
              /\ cookieLog.alias + cookieLog.skipped = cookies
        /\ cookieLog.rejected <= cookieLog.primary + cookieLog.alias

\* Both processes of the race have read the cursor, selected and written.
BothWrote == \A p \in Procs : race[p].pc = "browser" /\ race[p].wrote = "ok"

\* C19: the read-select-write sequence takes no lock: when two processes on the
\* same media directory have both read the same cursor file content and both have
\* written, they have selected the same file and the cursor file is one position
\* past the index they read, not two.
C19_OverlapLosesAdvance ==
    (race # NoRace /\ BothWrote /\ race[1].cfRead = race[2].cfRead) =>
        /\ race[1].idx = race[2].idx
        /\ race[1].fileToPost = race[2].fileToPost
        /\ cf.text = NumToString((race[1].idx + 1) % QueueLen)

C19_Witness ==
    /\ race # NoRace /\ BothWrote /\ QueueLen = 3
    /\ race[1].cfRead = Text(<<"1">>) /\ race[2].cfRead = Text(<<"1">>)
    /\ race[1].fileToPost = FileA /\ race[2].fileToPost = FileA
    /\ cf = Text(<<"2">>)

\* The labels of the model whose trimmed text is Post or Tweet in any letter case.
PublishTexts == {LabelPost, LabelTweet}

\* Element i of the list has a publish label and is neither disabled nor aria-disabled.
Qualifies(l, i) == l[i].label \in PublishTexts /\ ~l[i].disabled

\* C20: the element one scan of post_and_archive.js chooses is the first element of
\* the list, in scan order, whose trimmed text is exactly Post or Tweet in any letter
\* case and which is not disabled; none is chosen only when no element qualifies.
\* Earlier elements that are disabled or carry another label are passed over.
C20_FirstQualifyingButton ==
    trial.done =>
        LET l == trial.btnEls
            c == trial.chosen
        IN  /\ c \in 0..Len(l)
            /\ c = 0 => \A i \in 1..Len(l) : ~Qualifies(l, i)
            /\ c # 0 => (Qualifies(l, c) /\ \A i \in 1..(c - 1) : ~Qualifies(l, i))

C20_Witness ==
    /\ trial.done /\ trial.chosen = 3
    /\ trial.btnEls[1] = [label |-> LabelPost, disabled |-> TRUE]
    /\ trial.btnEls[2] = [label |-> LabelPosts, disabled |-> FALSE]
    /\ trial.btnEls[3] = [label |-> LabelTweet, disabled |-> FALSE]

\* The publish-control search of the current run is over.
SearchEnded == pub.scans > 0 /\ pc \notin {"scan", "click"}

\* The search was left by a rejected page call (the scan itself, or the click),
\* with nothing clicked.
SearchErrored == err \in {"scan", "click"} /\ ~pub.posted /\ ~pub.exhausted

\* What holds of the loop whatever way it ends: at most 8 (10) scans, the loop
\* variable counts the scans made, 2 seconds are slept after every scan that found
\* no enabled control, and exhaustion means all attempts were used.
SearchBounded ==
    /\ pub.scans <= MaxAttempts /\ attempt <= MaxAttempts
    /\ pc = "scan" => (pub.scans = attempt /\ ~pub.posted /\ ~pub.exhausted)
    /\ pub.sleeps = attempt
    /\ pub.sleeps = pub.scans - (IF pub.foundAt > 0 THEN 1 ELSE 0)
                              - (IF err = "scan" THEN 1 ELSE 0)
    /\ pub.exhausted => (pub.scans = MaxAttempts /\ pub.sleeps = MaxAttempts)

\* C21 as stated: the search is bounded as above and ends in exactly one of two
\* states, clicked (posted) or exhausted.
C21_TwoTerminalStates ==
    /\ SearchBounded
    /\ SearchEnded => (pub.posted # pub.exhausted)

\* C21, amended: the search always terminates, is bounded as above, and ends in
\* exactly one of three states: clicked (posted), exhausted, or errored because a
\* page call of the loop (the scan or the click) rejected.
C21_SearchTerminates ==
    /\ [](SearchBounded)
    /\ [](SearchEnded =>
            /\ pub.posted \/ pub.exhausted \/ SearchErrored
            /\ ~(pub.posted /\ pub.exhausted))
    /\ [](pc \in {"scan", "click"} => <>SearchEnded)

C21_Witness ==
    /\ script = "cookie" /\ pc = "done" /\ pub.exhausted
    /\ pub.scans = 10 /\ pub.sleeps = 10 /\ ~pub.posted

\* C22: the value a run writes to the cursor file is an integer of 0..n-1, n being
\* the length of the run's queue: the last index wraps to 0, a single-file queue
\* writes 0, and the text written reads back as that integer.
C22_WrittenCursorInRange ==
    wr.tried =>
        /\ wr.val \in 0..(Len(files) - 1)
        /\ idx = Len(files) - 1 => wr.val = 0
        /\ idx < Len(files) - 1 => wr.val = idx + 1
        /\ Len(files) = 1 => wr.val = 0
        /\ wr.ok => /\ cfAfterWrite.kind \in {"text", "unreadable"}
                    /\ ParseInt(cfAfterWrite.text) = [isNaN |-> FALSE, val |-> wr.val]

C22_Witness ==
    /\ Len(files) = 1 /\ cfStart = Text(<<"7">>) /\ wr.ok /\ wr.val = 0
    /\ cf = Text(<<"0">>) /\ pc = "done"

\* The current run has selected a file and the run before it made a cursor write
\* that failed.
SelectedAfterFailedWrite == prevWrite = "failed" /\ Selected /\ Len(hist) >= 2

\* What C23 says of the run whose cursor write fails: nothing is raised, the browser
\* launch is attempted and the run goes on to publish the selected file.
FailedWriteOnlyWarned ==
    (wr.tried /\ ~wr.ok) =>
        /\ Selected
        /\ pc = "launch" => (err = "none" /\ thrown = "none")
        /\ pc = "done" => (browser # "none" \/ err = "launch")
        /\ err \notin {"TypeError", "EmptyQueue", "CookieLoad"}

\* C23 as stated: a failed cursor write is only warned about, and the next run
\* selects the same file again.
C23_FailedWriteRepeatsFile ==
    /\ FailedWriteOnlyWarned
    /\ SelectedAfterFailedWrite => hist[Len(hist)] = hist[Len(hist) - 1]

\* C23, amended: a failed cursor write is only warned about; the next run selects
\* the same file again when the failed write left the file as it was, and the first
\* file when the failed write left the file empty.
C23_FailedWriteRepeatsOrRestarts ==
    /\ FailedWriteOnlyWarned
    /\ (wr.tried /\ ~wr.ok) => cfAfterWrite \in FailedWriteLeaves(cfStart)
    /\ SelectedAfterFailedWrite =>
          \/ hist[Len(hist)] = hist[Len(hist) - 1]
          \/ cfStart = Text(<<>>) /\ hist[Len(hist)] = 0

C23_Witness ==
    /\ prevWrite = "failed" /\ Selected /\ hist = <<1, 1>> /\ QueueLen = 3
    /\ cfStart = Text(<<"1">>) /\ pub.posted /\ pc = "done"

\* C24: in post_and_archive.js, when the error e-mail hand-off of a failed run
\* itself fails (sendErrorEmail rejects, or one of its child-process callbacks
\* throws), the run still ends rejected with the error the handler received, and a
\* browser that was launched is closed.
C24_EmailFailureKeepsError ==
    (script = "cred" /\ mail \in {"rejected", "crashed"} /\ pc = "done") =>
        /\ exit = "rejected" /\ thrown = err
        /\ browser # "open"

====
